---- MODULE Spec2Model ----
(***************************************************************************)
(* State-machine model of the thermal video analyzer's native engine      *)
(* (src/native/thermal_engine.cpp, class ThermalEngine) as it is driven   *)
(* through its public operations.                                         *)
(*                                                                         *)
(* Modelling conventions                                                   *)
(*  - A colour is a triple <<r, g, b>>; a decoded pixel is stored the way *)
(*    OpenCV stores it, as <<b, g, r>>.                                    *)
(*  - A frame (cv::Mat) is a sequence of rows, each a sequence of pixels; *)
(*    the empty cv::Mat is <<>>.  Row y / column x of the code is         *)
(*    frame[y + 1][x + 1].                                                 *)
(*  - tempMapping (std::unordered_map) is the sequence of its entries in  *)
(*    iteration order; keys are unique.  The order after an insertion of  *)
(*    a new key is unspecified by the language and so is any permutation. *)
(*  - Temperatures are floats in the code; the values used here are       *)
(*    integral and are written as integers.                                *)
(*  - Distances: the code compares sqrt(d2) values; sqrt is strictly      *)
(*    increasing on the integers that occur and sqrt(d2) < 10 iff         *)
(*    d2 < 100, so the model compares the squared distances d2.           *)
(***************************************************************************)
EXTENDS Integers, Sequences, FiniteSets, TLC

VARIABLES
    capOpened,        \* cap.isOpened()
    capVideo,         \* name of the video file cap has open ("" when closed)
    tempMapping,      \* iteration-ordered entries [key, temp]
    currentFrame,     \* cv::Mat currentFrame
    totalFrames,      \* int totalFrames
    frameWidth,       \* int frameWidth
    frameHeight,      \* int frameHeight
    lastFrameNumber,  \* int lastFrameNumber
    crashed,          \* the process died in an out-of-buffer pixel read
    last,             \* record of the last operation performed and its result
    host              \* the server process: its position, globals, last message and reply

vars == <<capOpened, capVideo, tempMapping, currentFrame, totalFrames,
          frameWidth, frameHeight, lastFrameNumber, crashed, last, host>>

----------------------------------------------------------------------------
(* Bounds of the explored inputs *)

\* frame numbers passed to getFrame / analyzeLine range over -1 .. MaxFrameArg
MaxFrameArg == 2

\* colour channel values of lookups range over the palette and 0 .. 255
\* queries are drawn from QueryColors below

Max(a, b) == IF a > b THEN a ELSE b
Min(a, b) == IF a < b THEN a ELSE b
Abs(a) == IF a < 0 THEN 0 - a ELSE a

----------------------------------------------------------------------------
(* Colours *)

Red     == <<255, 0, 0>>
Green   == <<0, 255, 0>>
DarkRed == <<250, 0, 0>>
NearRed == <<254, 1, 1>>
Grey    == <<128, 128, 128>>

\* the stored (B,G,R) form of a colour, as cap.read leaves it in a cv::Mat
Bgr(c) == <<c[3], c[2], c[1]>>

----------------------------------------------------------------------------
(* Video files the environment offers to loadVideo.  count is what        *)
(* cap.get(CAP_PROP_FRAME_COUNT) reports, frames the decodable content.   *)

VidA ==
    [ name |-> "a.avi", openable |-> TRUE, count |-> 2, width |-> 3, height |-> 2,
      frames |-> << << <<Bgr(Red), Bgr(Red), Bgr(Red)>>,
                       <<Bgr(Green), Bgr(NearRed), Bgr(Grey)>> >>,
                    << <<Bgr(Green), Bgr(Red), Bgr(Green)>>,
                       <<Bgr(Red), Bgr(Green), Bgr(DarkRed)>> >> >> ]

VidB ==
    [ name |-> "b.avi", openable |-> TRUE, count |-> 1, width |-> 2, height |-> 3,
      frames |-> << << <<Bgr(Grey), Bgr(Green)>>,
                       <<Bgr(Green), Bgr(Grey)>>,
                       <<Bgr(Red), Bgr(Red)>> >> >> ]

VidEmpty ==
    [ name |-> "empty.avi", openable |-> TRUE, count |-> 0, width |-> 3, height |-> 2,
      frames |-> << >> ]

VidMissing ==
    [ name |-> "missing.avi", openable |-> FALSE, count |-> 0, width |-> 0, height |-> 0,
      frames |-> << >> ]

Videos == {VidA, VidB, VidEmpty, VidMissing}

VideoNamed(n) == CHOOSE v \in Videos : v.name = n

----------------------------------------------------------------------------
(* Record of the last operation *)

\* no message of a client
NoMessage ==
    [ type |-> "none", numbers |-> TRUE, frameNum |-> 0,
      line1 |-> <<0, 0, 0, 0>>, line2 |-> <<0, 0, 0, 0>>, rgb |-> <<0, 0, 0>> ]

\* the server process is not part of the run
HostOff ==
    [ pc |-> "off", videoPath |-> "", videoExists |-> FALSE, csvPath |-> "",
      csvExists |-> FALSE, videoLoaded |-> FALSE, mappingLoaded |-> FALSE,
      isEngineReady |-> FALSE, videoInfo |-> [ frames |-> 0, width |-> 0, height |-> 0 ],
      listening |-> FALSE, msg |-> NoMessage, reply |-> "none", calls |-> 0 ]

NoCall ==
    [ op |-> "none", arg |-> <<>>, ok |-> FALSE, temp |-> 0, temps |-> <<>>,
      frame |-> <<>>, idx |-> -1, reads |-> 0, seek |-> -1, visited |-> 0,
      pts |-> <<>>, colors |-> <<>>, key |-> 0, walk |-> <<>> ]

----------------------------------------------------------------------------
(* ThermalEngine() *)

Init ==
    /\ capOpened = FALSE
    /\ capVideo = ""
    /\ tempMapping = <<>>
    /\ currentFrame = <<>>
    /\ totalFrames = 0
    /\ frameWidth = 0
    /\ frameHeight = 0
    /\ lastFrameNumber = -1
    /\ crashed = FALSE
    /\ host = HostOff
    /\ last = NoCall

----------------------------------------------------------------------------
(* loadVideo(path) *)

LoadVideoCall(v) ==
    /\ ~crashed
    /\ IF v.openable
       THEN /\ capOpened' = TRUE
            /\ capVideo' = v.name
            /\ totalFrames' = v.count
            /\ frameWidth' = v.width
            /\ frameHeight' = v.height
       ELSE \* cap.open releases the previous capture before it fails
            /\ capOpened' = FALSE
            /\ capVideo' = ""
            /\ UNCHANGED <<totalFrames, frameWidth, frameHeight>>
    /\ last' = [NoCall EXCEPT !.op = "loadVideo", !.arg = <<v.name>>,
                              !.ok = v.openable]
    /\ UNCHANGED <<tempMapping, currentFrame, lastFrameNumber, crashed>>

LoadVideo(v) == LoadVideoCall(v) /\ UNCHANGED host

----------------------------------------------------------------------------
(* getFrame(frameNumber) *)

\* ClampFrame with the upper limit off by one
ClampFrame_UpperOff(n) == Max(0, Min(n, totalFrames))

\* frameNumber = std::max(0, std::min(frameNumber, totalFrames - 1))
ClampFrame(n) == Max(0, Min(n, totalFrames - 1))

\* cap.read can succeed only on a frame the file really holds; it can fail
\* on any frame (truncated or damaged file, I/O error)
DecodeOutcomes(idx) ==
    IF capOpened /\ idx + 1 <= Len(VideoNamed(capVideo).frames)
    THEN {TRUE, FALSE} ELSE {FALSE}

\* GetFrameResult that seeks and reads on every call, cached index or not
GetFrameResult_AlwaysRead(n, readOk) ==
    LET idx == ClampFrame(n) IN
    IF ~capOpened
    THEN [ frame |-> <<>>, cur |-> currentFrame, lastNo |-> lastFrameNumber,
           idx |-> -1, reads |-> 0, seek |-> -1 ]
    ELSE IF readOk /\ idx + 1 <= Len(VideoNamed(capVideo).frames)
    THEN LET img == VideoNamed(capVideo).frames[idx + 1] IN
         [ frame |-> img, cur |-> img, lastNo |-> idx,
           idx |-> idx, reads |-> 1, seek |-> idx ]
    ELSE [ frame |-> <<>>, cur |-> <<>>, lastNo |-> lastFrameNumber,
           idx |-> idx, reads |-> 1, seek |-> idx ]

\* GetFrameResult without the isOpened() test: a closed capture cannot be
\* read, but the cached frame is still handed out
GetFrameResult_NoOpenTest(n, readOk) ==
    LET idx == ClampFrame(n) IN
    IF idx # lastFrameNumber
    THEN IF capOpened /\ readOk
         THEN LET img == VideoNamed(capVideo).frames[idx + 1] IN
              [ frame |-> img, cur |-> img, lastNo |-> idx,
                idx |-> idx, reads |-> 1, seek |-> idx ]
         ELSE [ frame |-> <<>>, cur |-> <<>>, lastNo |-> lastFrameNumber,
                idx |-> idx, reads |-> 1, seek |-> idx ]
    ELSE [ frame |-> currentFrame, cur |-> currentFrame, lastNo |-> lastFrameNumber,
           idx |-> idx, reads |-> 0, seek |-> -1 ]

\* The effect of one getFrame call when the decoder, if it is asked, answers
\* readOk: the Mat returned, the new cache, and what was asked of the decoder.
\* cv::VideoCapture::read releases its output Mat when it returns false, so a
\* failed read leaves currentFrame empty.
GetFrameResult(n, readOk) ==
    LET idx == ClampFrame(n) IN
    IF ~capOpened
    THEN [ frame |-> <<>>, cur |-> currentFrame, lastNo |-> lastFrameNumber,
           idx |-> -1, reads |-> 0, seek |-> -1 ]
    ELSE IF idx # lastFrameNumber
    THEN IF readOk
         THEN LET img == VideoNamed(capVideo).frames[idx + 1] IN
              [ frame |-> img, cur |-> img, lastNo |-> idx,
                idx |-> idx, reads |-> 1, seek |-> idx ]
         ELSE [ frame |-> <<>>, cur |-> <<>>, lastNo |-> lastFrameNumber,
                idx |-> idx, reads |-> 1, seek |-> idx ]
    ELSE [ frame |-> currentFrame, cur |-> currentFrame, lastNo |-> lastFrameNumber,
           idx |-> idx, reads |-> 0, seek |-> -1 ]

\* whether the call with this argument reaches cap.read at all
NeedsDecode(n) == capOpened /\ ClampFrame(n) # lastFrameNumber

ReadChoices(n) ==
    IF NeedsDecode(n) THEN DecodeOutcomes(ClampFrame(n)) ELSE {TRUE}

FrameArgs == -1 .. MaxFrameArg

GetFrame(n, readOk) ==
    /\ ~crashed
    /\ readOk \in ReadChoices(n)
    /\ \E res \in {GetFrameResult(n, readOk)} :
       /\ currentFrame' = res.cur
       /\ lastFrameNumber' = res.lastNo
       /\ last' = [NoCall EXCEPT !.op = "getFrame", !.arg = <<n>>,
                                 !.ok = (res.frame # <<>>), !.frame = res.frame,
                                 !.idx = res.idx, !.reads = res.reads,
                                 !.seek = res.seek]
    /\ UNCHANGED <<host, capOpened, capVideo, tempMapping, totalFrames, frameWidth,
                   frameHeight, crashed>>

----------------------------------------------------------------------------
(* packRGB and getPixelTemperature *)

\* bitwise OR of two naturals
RECURSIVE BitOr(_, _)
BitOr(a, b) ==
    IF a = 0 THEN b
    ELSE IF b = 0 THEN a
    ELSE (IF (a % 2) + (b % 2) > 0 THEN 1 ELSE 0) + 2 * BitOr(a \div 2, b \div 2)

\* packRGB with the red channel shifted by 8 instead of 16
packRGB_ShiftSlip(r, g, b) == BitOr(BitOr(r * 256, g * 256), b)

\* (uint32_t(r) << 16) | (uint32_t(g) << 8) | uint32_t(b), for the
\* channel values 0 <= r, g, b < 2^15 that occur
packRGB(r, g, b) == BitOr(BitOr(r * 65536, g * 256), b)

\* (mapKey >> 16) & 0xFF, (mapKey >> 8) & 0xFF, mapKey & 0xFF
UnpackR(key) == (key \div 65536) % 256
UnpackG(key) == (key \div 256) % 256
UnpackB(key) == key % 256

\* the square of the distance the scan computes between (r,g,b) and a key
Dist2(r, g, b, key) ==
      (r - UnpackR(key)) * (r - UnpackR(key))
    + (g - UnpackG(key)) * (g - UnpackG(key))
    + (b - UnpackB(key)) * (b - UnpackB(key))

\* std::numeric_limits<float>::max(), squared: above every distance
FltMax2 == 2147483647

\* distance < 10.0f, on squared distances
NearThreshold2 == 100

\* tempMapping.find(key): position of the entry, 0 for end()
Find(map, key) ==
    IF \E i \in 1 .. Len(map) : map[i].key = key
    THEN CHOOSE i \in 1 .. Len(map) : map[i].key = key
    ELSE 0

\* Scan with the comparison against minDistance turned around
RECURSIVE Scan_Farthest(_, _, _, _, _, _, _)
Scan_Farthest(map, r, g, b, i, minDistance, closestTemp) ==
    IF i > Len(map) THEN [ temp |-> closestTemp, visited |-> i - 1 ]
    ELSE IF Dist2(r, g, b, map[i].key) > minDistance
    THEN IF Dist2(r, g, b, map[i].key) < NearThreshold2
         THEN [ temp |-> map[i].temp, visited |-> i ]
         ELSE Scan_Farthest(map, r, g, b, i + 1, Dist2(r, g, b, map[i].key),
                            map[i].temp)
    ELSE Scan_Farthest(map, r, g, b, i + 1, minDistance, closestTemp)

\* Scan that never leaves the loop early: the overall minimum wins
RECURSIVE Scan_NoBreak(_, _, _, _, _, _, _)
Scan_NoBreak(map, r, g, b, i, minDistance, closestTemp) ==
    IF i > Len(map) THEN [ temp |-> closestTemp, visited |-> i - 1 ]
    ELSE IF Dist2(r, g, b, map[i].key) < minDistance
    THEN Scan_NoBreak(map, r, g, b, i + 1, Dist2(r, g, b, map[i].key), map[i].temp)
    ELSE Scan_NoBreak(map, r, g, b, i + 1, minDistance, closestTemp)

\* Scan that also takes an entry at the same distance as the minimum so far
RECURSIVE Scan_LastTie(_, _, _, _, _, _, _)
Scan_LastTie(map, r, g, b, i, minDistance, closestTemp) ==
    IF i > Len(map) THEN [ temp |-> closestTemp, visited |-> i - 1 ]
    ELSE IF Dist2(r, g, b, map[i].key) <= minDistance
    THEN IF Dist2(r, g, b, map[i].key) < NearThreshold2
         THEN [ temp |-> map[i].temp, visited |-> i ]
         ELSE Scan_LastTie(map, r, g, b, i + 1, Dist2(r, g, b, map[i].key),
                           map[i].temp)
    ELSE Scan_LastTie(map, r, g, b, i + 1, minDistance, closestTemp)

\* the for loop over the table, from entry i on: the value of closestTemp
\* when the loop ends, and how many entries the loop looked at
RECURSIVE Scan(_, _, _, _, _, _, _)
Scan(map, r, g, b, i, minDistance, closestTemp) ==
    IF i > Len(map) THEN [ temp |-> closestTemp, visited |-> i - 1 ]
    ELSE IF Dist2(r, g, b, map[i].key) < minDistance
    THEN IF Dist2(r, g, b, map[i].key) < NearThreshold2
         THEN [ temp |-> map[i].temp, visited |-> i ]
         ELSE Scan(map, r, g, b, i + 1, Dist2(r, g, b, map[i].key), map[i].temp)
    ELSE Scan(map, r, g, b, i + 1, minDistance, closestTemp)

\* Resolve without the find() step: every lookup goes through the scan
Resolve_ScanOnly(map, r, g, b) == Scan(map, r, g, b, 1, FltMax2, -1)

\* Resolve whose scan only accepts entries below the early-exit distance
Resolve_NearOnly(map, r, g, b) ==
    IF Find(map, packRGB(r, g, b)) # 0
    THEN [ temp |-> map[Find(map, packRGB(r, g, b))].temp, visited |-> 0 ]
    ELSE Scan(map, r, g, b, 1, NearThreshold2, -1)

\* getPixelTemperature on a given table
Resolve(map, r, g, b) ==
    IF Find(map, packRGB(r, g, b)) # 0
    THEN [ temp |-> map[Find(map, packRGB(r, g, b))].temp, visited |-> 0 ]
    ELSE Scan(map, r, g, b, 1, FltMax2, -1)

getPixelTemperature(r, g, b) == Resolve(tempMapping, r, g, b).temp

QueryColors == {Red, Green, DarkRed, NearRed, Grey, <<0, 0, 0>>}

GetPixelTemperatureCall(c) ==
    /\ ~crashed
    /\ \E res \in {Resolve(tempMapping, c[1], c[2], c[3])} :
         last' = [NoCall EXCEPT !.op = "getPixelTemperature", !.arg = c,
                                !.temp = res.temp, !.visited = res.visited]
    /\ UNCHANGED <<capOpened, capVideo, tempMapping, currentFrame, totalFrames,
                   frameWidth, frameHeight, lastFrameNumber, crashed>>

GetPixelTemperature(c) == GetPixelTemperatureCall(c) /\ UNCHANGED host

----------------------------------------------------------------------------
(* Calibration files the environment offers to loadTempMapping.  A line   *)
(* is the sequence of its texts and "," separators; two adjacent           *)
(* separators enclose an empty cell.                                       *)

Header == <<"X", ",", "Y", ",", "R", ",", "G", ",", "B", ",", "Temperature_C">>

Line6(x, y, r, g, b, t) == <<x, ",", y, ",", r, ",", g, ",", b, ",", t>>

FileA ==
    [ name |-> "calib.csv", openable |-> TRUE,
      lines |-> << Header,
                   Line6("1", "1", "255", "0", "0", "1000.0"),
                   Line6("2", "1", "0", "255", "0", "500.0") >> ]

FileB ==
    [ name |-> "other.csv", openable |-> TRUE,
      lines |-> << Header,
                   Line6("1", "1", "250", "0", "0", "-5.0") >> ]

FileMessy ==
    [ name |-> "messy.csv", openable |-> TRUE,
      lines |-> << Header,
                   <<"1", ",", "1", ",", "255", ",", "0", ",", "0">>,
                   Line6("1", "1", "256", "0", "0", "300.0"),
                   Line6("1", "1", "0", "abc", "0", "300.0"),
                   Line6("1", "1", "0", "255", "0", "300.0"),
                   Line6("1", "1", "0", "255", "0", "hot"),
                   <<>>,
                   <<"1", ",", "1", ",", "0", ",", "255", ",", ",", "300.0">>,
                   <<"3", ",", "1", ",", "0", ",", "255abc", ",", "0", ",", "700.0", ",", "note">> >> ]

FileNoHeader ==
    [ name |-> "nohdr.csv", openable |-> TRUE,
      lines |-> << Line6("1", "1", "255", "0", "0", "1000.0") >> ]

FileBad ==
    [ name |-> "bad.csv", openable |-> TRUE,
      lines |-> << Header,
                   Line6("1", "1", "-1", "0", "0", "300.0"),
                   <<"1", ",", "1", ",", "255", ",", "0", ",", "0", ",">> >> ]

FileMissing ==
    [ name |-> "missing.csv", openable |-> FALSE, lines |-> << >> ]

CsvFiles == {FileA, FileB, FileMessy, FileNoHeader, FileBad, FileMissing}

\* the files offered while the whole engine is explored
EngineFiles == {FileA, FileB, FileMissing}

CsvNamed(n) == CHOOSE f \in CsvFiles : f.name = n

\* while (std::getline(ss, cell, ',')) row.push_back(cell): a cell ends at a
\* separator or at the end of the line; nothing is read after a final separator
RECURSIVE SplitFrom(_, _, _, _, _)
SplitFrom(line, i, cell, started, row) ==
    IF i > Len(line)
    THEN IF started THEN Append(row, cell) ELSE row
    ELSE IF line[i] = ","
    THEN SplitFrom(line, i + 1, "", FALSE, Append(row, cell))
    ELSE SplitFrom(line, i + 1, line[i], TRUE, row)

SplitCsv(line) == SplitFrom(line, 1, "", FALSE, <<>>)

\* std::stoi: the value of the longest numeric prefix; throws when there is none
StoiTable ==
    { <<"0", 0>>, <<"1", 1>>, <<"2", 2>>, <<"3", 3>>, <<"250", 250>>,
      <<"255", 255>>, <<"256", 256>>, <<"-1", -1>>, <<"255abc", 255>>,
      <<"300.0", 300>>, <<"1000.0", 1000>> }

StoiThrows(text) == ~ \E e \in StoiTable : e[1] = text
Stoi(text) == (CHOOSE e \in StoiTable : e[1] = text)[2]

\* std::stof, on the temperature texts that occur
StofTable ==
    { <<"1000.0", 1000>>, <<"500.0", 500>>, 
      <<"700.0", 700>>, <<"300.0", 300>>, <<"-5.0", -5>>, <<"0", 0>>,
      <<"255", 255>> }

StofThrows(text) == ~ \E e \in StofTable : e[1] = text
Stof(text) == (CHOOSE e \in StofTable : e[1] = text)[2]

----------------------------------------------------------------------------
(* loadTempMapping(csvPath) *)

\* MapPut in the manner of insert(): an entry that exists is left alone
MapPut_KeepFirst(map, key, temp) ==
    IF Find(map, key) # 0 THEN map
    ELSE Append(map, [key |-> key, temp |-> temp])

\* tempMapping[key] = temp: an existing entry is overwritten in place, a new
\* one is added (here at the end; its place is settled by TableOrders)
MapPut(map, key, temp) ==
    LET it == Find(map, key) IN
    IF it # 0 THEN [map EXCEPT ![it].temp = temp]
    ELSE Append(map, [key |-> key, temp |-> temp])

\* LoadRow whose validation tests the lower limits only
LoadRow_NoUpperCheck(acc, line) ==
    LET row == SplitCsv(line) IN
    IF Len(row) >= 6
    THEN IF StoiThrows(row[3]) \/ StoiThrows(row[4]) \/ StoiThrows(row[5])
            \/ StofThrows(row[6])
         THEN acc
         ELSE IF Stoi(row[3]) >= 0 /\ Stoi(row[4]) >= 0 /\ Stoi(row[5]) >= 0
              THEN [ map |-> MapPut(acc.map,
                                    packRGB(Stoi(row[3]), Stoi(row[4]), Stoi(row[5])),
                                    Stof(row[6])),
                     count |-> acc.count + 1 ]
              ELSE acc
    ELSE acc

\* the body of the while loop for one line: the table and count after it
LoadRow(acc, line) ==
    LET row == SplitCsv(line) IN
    IF Len(row) >= 6
    THEN IF StoiThrows(row[3]) \/ StoiThrows(row[4]) \/ StoiThrows(row[5])
            \/ StofThrows(row[6])
         THEN acc
         ELSE LET r == Stoi(row[3])
                  g == Stoi(row[4])
                  b == Stoi(row[5])
                  temp == Stof(row[6])
              IN IF r >= 0 /\ r <= 255 /\ g >= 0 /\ g <= 255 /\ b >= 0 /\ b <= 255
                 THEN [ map |-> MapPut(acc.map, packRGB(r, g, b), temp),
                        count |-> acc.count + 1 ]
                 ELSE acc
    ELSE acc

\* the while loop over the lines from line i on
RECURSIVE LoadRows(_, _, _)
LoadRows(acc, lines, i) ==
    IF i > Len(lines) THEN acc
    ELSE LoadRows(LoadRow(acc, lines[i]), lines, i + 1)

\* LoadResult that empties the table before it reads the file
LoadResult_ClearsFirst(map, f) ==
    IF ~f.openable THEN [ map |-> <<>>, count |-> 0 ]
    ELSE LoadRows([ map |-> <<>>, count |-> 0 ], f.lines, 2)

\* LoadResult that reports the size of the table instead of the rows taken
LoadResult_CountsTable(map, f) ==
    IF ~f.openable THEN [ map |-> map, count |-> 0 ]
    ELSE [ map |-> LoadRows([ map |-> map, count |-> 0 ], f.lines, 2).map,
           count |-> Len(LoadRows([ map |-> map, count |-> 0 ], f.lines, 2).map) ]

\* LoadResult that does not drop the first line
LoadResult_FromFirstLine(map, f) ==
    IF ~f.openable THEN [ map |-> map, count |-> 0 ]
    ELSE LoadRows([ map |-> map, count |-> 0 ], f.lines, 1)

\* the table and count a load of file f leaves, entries in insertion order;
\* the first line is read and dropped before the loop
LoadResult(map, f) ==
    IF ~f.openable THEN [ map |-> map, count |-> 0 ]
    ELSE LoadRows([ map |-> map, count |-> 0 ], f.lines, 2)

Injective(p) == \A i, j \in DOMAIN p : i # j => p[i] # p[j]

\* iteration orders an unordered_map may show after a load: unchanged when no
\* key was inserted, any order of the entries when one was
TableOrders(old, new) ==
    IF Len(new) = Len(old) THEN {new}
    ELSE { [i \in 1 .. Len(new) |-> new[p[i]]] :
             p \in { q \in [1 .. Len(new) -> 1 .. Len(new)] : Injective(q) } }

LoadTempMappingCall(f) ==
    /\ ~crashed
    /\ \E res \in {LoadResult(tempMapping, f)} :
       /\ tempMapping' \in TableOrders(tempMapping, res.map)
       /\ last' = [NoCall EXCEPT !.op = "loadTempMapping", !.arg = <<f.name>>,
                                 !.ok = (f.openable /\ res.count > 0)]
    /\ UNCHANGED <<capOpened, capVideo, currentFrame, totalFrames, frameWidth,
                   frameHeight, lastFrameNumber, crashed>>

LoadTempMapping(f) == LoadTempMappingCall(f) /\ UNCHANGED host

----------------------------------------------------------------------------
(* getLinePixels(x1, y1, x2, y2) *)

\* LineLoop that pulls a point outside the frame onto the nearest edge
RECURSIVE LineLoop_Clamped(_, _, _, _, _, _, _, _, _, _)
LineLoop_Clamped(x, y, err, x2, y2, dx, dy, sx, sy, pixels) ==
    LET kept == Append(pixels, << Max(0, Min(x, frameWidth - 1)),
                                  Max(0, Min(y, frameHeight - 1)) >>)
    IN  IF x = x2 /\ y = y2 THEN kept
        ELSE LET e2 == 2 * err
                 stepX == e2 > 0 - dy
                 err1 == IF stepX THEN err - dy ELSE err
                 xn == IF stepX THEN x + sx ELSE x
                 stepY == e2 < dx
                 err2 == IF stepY THEN err1 + dx ELSE err1
                 yn == IF stepY THEN y + sy ELSE y
             IN LineLoop_Clamped(xn, yn, err2, x2, y2, dx, dy, sx, sy, kept)

\* LineLoop with the end test ahead of the push
RECURSIVE LineLoop_BreakFirst(_, _, _, _, _, _, _, _, _, _)
LineLoop_BreakFirst(x, y, err, x2, y2, dx, dy, sx, sy, pixels) ==
    IF x = x2 /\ y = y2 THEN pixels
    ELSE LET kept == IF x >= 0 /\ x < frameWidth /\ y >= 0 /\ y < frameHeight
                     THEN Append(pixels, <<x, y>>) ELSE pixels
             e2 == 2 * err
             stepX == e2 > 0 - dy
             err1 == IF stepX THEN err - dy ELSE err
             xn == IF stepX THEN x + sx ELSE x
             stepY == e2 < dx
             err2 == IF stepY THEN err1 + dx ELSE err1
             yn == IF stepY THEN y + sy ELSE y
         IN LineLoop_BreakFirst(xn, yn, err2, x2, y2, dx, dy, sx, sy, kept)

\* LineLoop whose bounds test lets x = frameWidth and y = frameHeight through
RECURSIVE LineLoop_InclusiveWidth(_, _, _, _, _, _, _, _, _, _)
LineLoop_InclusiveWidth(x, y, err, x2, y2, dx, dy, sx, sy, pixels) ==
    LET kept == IF x >= 0 /\ x <= frameWidth /\ y >= 0 /\ y <= frameHeight
                THEN Append(pixels, <<x, y>>) ELSE pixels
    IN  IF x = x2 /\ y = y2 THEN kept
        ELSE LET e2 == 2 * err
                 stepX == e2 > 0 - dy
                 err1 == IF stepX THEN err - dy ELSE err
                 xn == IF stepX THEN x + sx ELSE x
                 stepY == e2 < dx
                 err2 == IF stepY THEN err1 + dx ELSE err1
                 yn == IF stepY THEN y + sy ELSE y
             IN LineLoop_InclusiveWidth(xn, yn, err2, x2, y2, dx, dy, sx, sy, kept)

\* the while (true) loop, entered with the current point (x, y) and err
RECURSIVE LineLoop(_, _, _, _, _, _, _, _, _, _)
LineLoop(x, y, err, x2, y2, dx, dy, sx, sy, pixels) ==
    LET kept == IF x >= 0 /\ x < frameWidth /\ y >= 0 /\ y < frameHeight
                THEN Append(pixels, <<x, y>>) ELSE pixels
    IN  IF x = x2 /\ y = y2 THEN kept
        ELSE LET e2 == 2 * err
                 stepX == e2 > 0 - dy
                 err1 == IF stepX THEN err - dy ELSE err
                 xn == IF stepX THEN x + sx ELSE x
                 stepY == e2 < dx
                 err2 == IF stepY THEN err1 + dx ELSE err1
                 yn == IF stepY THEN y + sy ELSE y
             IN LineLoop(xn, yn, err2, x2, y2, dx, dy, sx, sy, kept)

\* getLinePixels that walks from (x2, y2) back to (x1, y1)
getLinePixels_Reversed(x1, y1, x2, y2) ==
    LET dx == Abs(x1 - x2)
        dy == Abs(y1 - y2)
        sx == IF x2 < x1 THEN 1 ELSE -1
        sy == IF y2 < y1 THEN 1 ELSE -1
    IN  LineLoop(x2, y2, dx - dy, x1, y1, dx, dy, sx, sy, <<>>)

getLinePixels(x1, y1, x2, y2) ==
    LET dx == Abs(x2 - x1)
        dy == Abs(y2 - y1)
        sx == IF x1 < x2 THEN 1 ELSE -1
        sy == IF y1 < y2 THEN 1 ELSE -1
    IN  LineLoop(x1, y1, dx - dy, x2, y2, dx, dy, sx, sy, <<>>)

\* the points (x, y) the while (true) loop passes through, one per
\* iteration, whether the bounds test lets them into pixels or not
RECURSIVE LineWalk(_, _, _, _, _, _, _, _, _, _)
LineWalk(x, y, err, x2, y2, dx, dy, sx, sy, visited) ==
    IF x = x2 /\ y = y2 THEN Append(visited, <<x, y>>)
    ELSE LET e2 == 2 * err
             stepX == e2 > 0 - dy
             err1 == IF stepX THEN err - dy ELSE err
             xn == IF stepX THEN x + sx ELSE x
             stepY == e2 < dx
             err2 == IF stepY THEN err1 + dx ELSE err1
             yn == IF stepY THEN y + sy ELSE y
         IN LineWalk(xn, yn, err2, x2, y2, dx, dy, sx, sy,
                     Append(visited, <<x, y>>))

\* the iterations of the loop of getLinePixels(x1, y1, x2, y2)
getLineWalk(x1, y1, x2, y2) ==
    LET dx == Abs(x2 - x1)
        dy == Abs(y2 - y1)
        sx == IF x1 < x2 THEN 1 ELSE -1
        sy == IF y1 < y2 THEN 1 ELSE -1
    IN  LineWalk(x1, y1, dx - dy, x2, y2, dx, dy, sx, sy, <<>>)

----------------------------------------------------------------------------
(* analyzeLine(frameNumber, x1, y1, x2, y2) *)

\* whether frame.at<cv::Vec3b>(y, x) addresses a pixel of the frame
InFrame(frame, x, y) ==
    /\ y >= 0 /\ y < Len(frame)
    /\ x >= 0 /\ x < Len(frame[1])

\* positions of the rasterized points that frame.at reads outside the frame
\* (frameWidth and frameHeight are those of the video loaded last, the cached
\* frame may stem from the one loaded before)
OutsideReads(frame, pts) ==
    { i \in 1 .. Len(pts) : ~InFrame(frame, pts[i][1], pts[i][2]) }

\* what a read outside the frame can deliver
StrayPixels == { Bgr(Red), <<0, 0, 0>> }

\* cv::Vec3b bgr = frame.at<cv::Vec3b>(y, x), for every rasterized point
PixelsRead(frame, pts, stray) ==
    [ i \in 1 .. Len(pts) |->
        IF InFrame(frame, pts[i][1], pts[i][2])
        THEN frame[pts[i][2] + 1][pts[i][1] + 1]
        ELSE stray[i] ]

\* SampleOf that pushes the resolved value as it is
SampleOf_Raw(map, bgr) == Resolve(map, bgr[3], bgr[2], bgr[1]).temp

\* SampleOf that takes the stored bytes in R,G,B order
SampleOf_NoSwap(map, bgr) ==
    LET temp == Resolve(map, bgr[1], bgr[2], bgr[3]).temp
    IN  IF temp >= 0 THEN temp ELSE 0

\* the value pushed for one pixel: b = bgr[0], g = bgr[1], r = bgr[2],
\* temp = getPixelTemperature(r, g, b), 0.0 in place of a negative temp
SampleOf(map, bgr) ==
    LET b == bgr[1]
        g == bgr[2]
        r == bgr[3]
        temp == Resolve(map, r, g, b).temp
    IN  IF temp >= 0 THEN temp ELSE 0

\* Samples that leaves out the pixels without a temperature
RECURSIVE Samples_SkipAbsent(_, _)
Samples_SkipAbsent(map, colors) ==
    IF colors = <<>> THEN <<>>
    ELSE IF Resolve(map, colors[1][3], colors[1][2], colors[1][1]).temp >= 0
    THEN <<SampleOf(map, colors[1])>> \o Samples_SkipAbsent(map, Tail(colors))
    ELSE Samples_SkipAbsent(map, Tail(colors))

\* the loop over linePixels
Samples(map, colors) == [ i \in 1 .. Len(colors) |-> SampleOf(map, colors[i]) ]

LineArgs ==
    { <<0, 0, 2, 0>>, <<2, 0, 0, 0>>, <<0, 0, 2, 1>>, <<0, 2, 0, 0>>,
      <<-1, 1, 3, 1>>, <<1, 1, 1, 1>> }

\* the (x, y) list a call would sample once it has its frame
LinePoints(ln) == getLinePixels(ln[1], ln[2], ln[3], ln[4])

AnalyzeLineCall(n, ln, readOk) ==
    /\ ~crashed
    /\ readOk \in ReadChoices(n)
    /\ \E res \in {GetFrameResult(n, readOk)} :
       \E pts \in {IF res.frame = <<>> THEN <<>> ELSE LinePoints(ln)} :
       \E stray \in [OutsideReads(res.frame, pts) -> StrayPixels] :
       \E colors \in {PixelsRead(res.frame, pts, stray)} :
          /\ currentFrame' = res.cur
          /\ lastFrameNumber' = res.lastNo
          /\ last' = [NoCall EXCEPT !.op = "analyzeLine", !.arg = <<n>> \o ln,
                                    !.ok = (res.frame # <<>>),
                                    !.frame = res.frame, !.idx = res.idx,
                                    !.reads = res.reads, !.seek = res.seek,
                                    !.pts = pts, !.colors = colors,
                                    !.temps = Samples(tempMapping, colors)]
    /\ UNCHANGED <<capOpened, capVideo, tempMapping, totalFrames, frameWidth,
                   frameHeight, crashed>>

AnalyzeLine(n, ln, readOk) == AnalyzeLineCall(n, ln, readOk) /\ UNCHANGED host

\* a read outside the frame's buffer may also end the process
AnalyzeLineCrash(n, ln, readOk) ==
    /\ ~crashed
    /\ readOk \in ReadChoices(n)
    /\ \E res \in {GetFrameResult(n, readOk)} :
          /\ res.frame # <<>>
          /\ OutsideReads(res.frame, LinePoints(ln)) # {}
          /\ currentFrame' = res.cur
          /\ lastFrameNumber' = res.lastNo
    /\ crashed' = TRUE
    /\ last' = [NoCall EXCEPT !.op = "crash", !.arg = <<n>> \o ln]
    /\ UNCHANGED <<host, capOpened, capVideo, tempMapping, totalFrames, frameWidth,
                   frameHeight>>

\* IsReady of the binding: engine.isVideoLoaded() && engine.getTotalFrames() > 0
isReady == capOpened /\ totalFrames > 0

Next ==
    \/ \E v \in Videos : LoadVideo(v)
    \/ \E n \in FrameArgs, readOk \in BOOLEAN : GetFrame(n, readOk)
    \/ \E c \in QueryColors : GetPixelTemperature(c)
    \/ \E f \in EngineFiles : LoadTempMapping(f)
    \/ \E n \in FrameArgs, ln \in LineArgs, readOk \in BOOLEAN :
         AnalyzeLine(n, ln, readOk)
    \/ \E n \in FrameArgs, ln \in LineArgs, readOk \in BOOLEAN :
         AnalyzeLineCrash(n, ln, readOk)

Spec == Init /\ [][Next]_vars

\* the calibration loader and the lookup alone, over all the files
LoadNext ==
    \/ \E f \in CsvFiles : LoadTempMapping(f)
    \/ \E c \in QueryColors : GetPixelTemperature(c)

LoadSpec == Init /\ [][LoadNext]_vars

----------------------------------------------------------------------------
(* packRGB alone, applied to colours drawn at the start *)

MaxLow == 1

\* channel values at both ends of [0,255] and around the middle bit
PackChannels == (0 .. MaxLow) \cup {127, 128} \cup ((255 - MaxLow) .. 255)

PackColors == PackChannels \X PackChannels \X PackChannels

PackInit ==
    /\ capOpened = FALSE
    /\ capVideo = ""
    /\ tempMapping = <<>>
    /\ currentFrame = <<>>
    /\ totalFrames = 0
    /\ frameWidth = 0
    /\ frameHeight = 0
    /\ lastFrameNumber = -1
    /\ crashed = FALSE
    /\ host = HostOff
    /\ \E c \in PackColors : last = [NoCall EXCEPT !.op = "call", !.arg = c]

PackRGB ==
    /\ last.op = "call"
    /\ last' = [last EXCEPT !.op = "packRGB",
                            !.key = packRGB(last.arg[1], last.arg[2], last.arg[3])]
    /\ UNCHANGED <<host, capOpened, capVideo, tempMapping, currentFrame, totalFrames,
                   frameWidth, frameHeight, lastFrameNumber, crashed>>

PackNext == PackRGB

PackSpec == PackInit /\ [][PackNext]_vars

----------------------------------------------------------------------------
(* getLinePixels alone, applied to endpoints drawn at the start, in an
   engine that holds an opened video of frameWidth x frameHeight *)

MaxCoord == 5

FrameSizes == {3, 5}

RasterCoords == -1 .. MaxCoord

RasterLines == RasterCoords \X RasterCoords \X RasterCoords \X RasterCoords

\* the largest int
IntMax == 2147483647

\* whether int e2 = 2 * err leaves the range of int at the first iteration,
\* where err = dx - dy
E2Overflows(x1, y1, x2, y2) ==
    \/ Abs(x2 - x1) - Abs(y2 - y1) > IntMax \div 2
    \/ Abs(x2 - x1) - Abs(y2 - y1) < 0 - (IntMax \div 2) - 1

\* the nearest coordinate at which a line from the origin overflows
FarCoord == IntMax \div 2 + 1

\* lines with one end far away, as binding.cpp passes them on unchecked
FarLines ==
    { <<0, 0, FarCoord, 0>>, <<FarCoord, 1, 0, 1>>, <<1, 0, 1, FarCoord + 1>>,
      <<2, FarCoord + 3, 0, 0>> }

RasterInit ==
    /\ capOpened = TRUE
    /\ capVideo = "raster.avi"
    /\ tempMapping = <<>>
    /\ currentFrame = <<>>
    /\ totalFrames = 1
    /\ frameWidth \in FrameSizes
    /\ frameHeight \in FrameSizes
    /\ lastFrameNumber = -1
    /\ crashed = FALSE
    /\ host = HostOff
    /\ \E ln \in RasterLines \cup FarLines :
         last = [NoCall EXCEPT !.op = "call", !.arg = ln]

GetLinePixels ==
    /\ last.op = "call"
    /\ ~E2Overflows(last.arg[1], last.arg[2], last.arg[3], last.arg[4])
    /\ last' = [last EXCEPT !.op = "getLinePixels",
                            !.pts = getLinePixels(last.arg[1], last.arg[2],
                                                  last.arg[3], last.arg[4]),
                            !.walk = getLineWalk(last.arg[1], last.arg[2],
                                                 last.arg[3], last.arg[4])]
    /\ UNCHANGED <<host, capOpened, capVideo, tempMapping, currentFrame, totalFrames,
                   frameWidth, frameHeight, lastFrameNumber, crashed>>

\* 2 * err overflows (undefined): with wrapped arithmetic the error term
\* no longer steers the walk to (x2, y2) and the call does not return; a
\* build may also leave the loop with what it has gathered at that point
GetLinePixelsOverflow ==
    /\ last.op = "call"
    /\ E2Overflows(last.arg[1], last.arg[2], last.arg[3], last.arg[4])
    /\ \E hangs \in BOOLEAN :
         /\ crashed' = hangs
         /\ last' = [last EXCEPT
                       !.op = "overflow",
                       !.walk = IF hangs THEN <<>>
                                ELSE << <<last.arg[1], last.arg[2]>> >>,
                       !.pts = IF ~hangs /\ last.arg[1] >= 0 /\ last.arg[1] < frameWidth
                                  /\ last.arg[2] >= 0 /\ last.arg[2] < frameHeight
                               THEN << <<last.arg[1], last.arg[2]>> >> ELSE <<>>]
    /\ UNCHANGED <<host, capOpened, capVideo, tempMapping, currentFrame, totalFrames,
                   frameWidth, frameHeight, lastFrameNumber>>

RasterNext ==
    \/ GetLinePixels
    \/ GetLinePixelsOverflow

RasterSpec == RasterInit /\ [][RasterNext]_vars

----------------------------------------------------------------------------
(* The server process (server.js): startServer, initializeEngine and the
   WebSocket message handlers, which reach the engine through the binding *)

\* what the files behind VIDEO_PATH and CSV_PATH can be
HostVideos == Videos
HostCsvFiles == {FileA, FileBad, FileMissing}

\* coordinates of requests, inside and outside the frames of the videos
HostLines == { <<0, 0, 2, 1>>, <<-1, 0, 5, 5>>, <<1, 1, 1, 1>> }

HostColors == { Red, Grey, <<256, 0, 0>>, <<0, -1, 0>> }

\* messages of type analyzeLine; numbers says that frameNum and all the
\* coordinates are numbers and both lines are there
AnalyzeMessages ==
    { [NoMessage EXCEPT !.type = "analyzeLine", !.numbers = nb, !.frameNum = n,
                        !.line1 = a, !.line2 = b] :
        nb \in BOOLEAN, n \in FrameArgs, a \in HostLines, b \in HostLines }

PixelMessages ==
    { [NoMessage EXCEPT !.type = "getPixelTemp", !.numbers = nb, !.rgb = c] :
        nb \in BOOLEAN, c \in HostColors }

OtherMessages ==
    { [NoMessage EXCEPT !.type = t] : t \in {"ping", "bogus"} }

EngineUnchanged ==
    UNCHANGED <<capOpened, capVideo, tempMapping, currentFrame, totalFrames,
                frameWidth, frameHeight, lastFrameNumber, crashed, last>>

HostInit ==
    /\ capOpened = FALSE
    /\ capVideo = ""
    /\ tempMapping = <<>>
    /\ currentFrame = <<>>
    /\ totalFrames = 0
    /\ frameWidth = 0
    /\ frameHeight = 0
    /\ lastFrameNumber = -1
    /\ crashed = FALSE
    /\ last = NoCall
    /\ \E v \in HostVideos, f \in HostCsvFiles, ve \in BOOLEAN, ce \in BOOLEAN :
         host = [HostOff EXCEPT !.pc = "start", !.videoPath = v.name,
                                !.videoExists = ve, !.csvPath = f.name,
                                !.csvExists = ce]

\* if (!loaded) throw ...: initializeEngine goes on only after a success
AfterLoad_Ignore(ok, next) == next

AfterLoad(ok, next) == IF ok THEN next ELSE "failed"

\* the two fs.existsSync tests of initializeEngine
HostCheckFiles ==
    /\ host.pc = "start"
    /\ host' = [host EXCEPT !.pc = AfterLoad(host.videoExists /\ host.csvExists,
                                             "loadVideo")]
    /\ EngineUnchanged

HostLoadVideo ==
    /\ host.pc = "loadVideo"
    /\ LoadVideoCall(VideoNamed(host.videoPath))
    /\ host' = [host EXCEPT !.videoLoaded = last'.ok,
                            !.pc = AfterLoad(last'.ok, "loadMapping")]

HostLoadMapping ==
    /\ host.pc = "loadMapping"
    /\ LoadTempMappingCall(CsvNamed(host.csvPath))
    /\ host' = [host EXCEPT !.mappingLoaded = last'.ok,
                            !.pc = AfterLoad(last'.ok, "checkReady")]

\* videoInfo = getVideoInfo(); isEngineReady = isReady(); throw if not ready
HostCheckReady ==
    /\ host.pc = "checkReady"
    /\ host' = [host EXCEPT !.videoInfo = [ frames |-> totalFrames,
                                            width |-> frameWidth,
                                            height |-> frameHeight ],
                            !.isEngineReady = isReady,
                            !.pc = AfterLoad(isReady, "resolved")]
    /\ EngineUnchanged

\* startServer: server.listen after initializeEngine has resolved
HostListen ==
    /\ host.pc = "resolved"
    /\ host' = [host EXCEPT !.listening = TRUE, !.pc = "serving"]
    /\ EngineUnchanged

\* startServer: process.exit(1) when initializeEngine has thrown
HostExit ==
    /\ host.pc = "failed"
    /\ host' = [host EXCEPT !.pc = "exited", !.isEngineReady = FALSE]
    /\ EngineUnchanged

\* a message handler that starts while another one is between its calls
HandlerIdle_Always == host.listening

\* a message handler starts when the one before it has returned: the
\* handlers contain no await ahead of or between their engine calls
HandlerIdle == host.pc = "serving"

\* ClampCoord without the lower limit
ClampCoord_UpperOnly(x, size) == Min(x, size - 1)

\* Math.max(0, Math.min(x, size - 1))
ClampCoord(x, size) == Max(0, Min(x, size - 1))

\* validateLine: the line with its coordinates clamped to the video
ClampLine(ln) ==
    << ClampCoord(ln[1], host.videoInfo.width), ClampCoord(ln[2], host.videoInfo.height),
       ClampCoord(ln[3], host.videoInfo.width), ClampCoord(ln[4], host.videoInfo.height) >>

\* the tests of handleAnalyzeLine that throw
ValidAnalyzeRequest(m) ==
    m.numbers /\ m.frameNum >= 0 /\ m.frameNum < host.videoInfo.frames

\* the test of the binding's AnalyzeLine that throws a RangeError
BindingFrameInRange(n) == n >= 0 /\ n < totalFrames

\* handleAnalyzeLine up to and with its first engine.analyzeLine call
HostAnalyzeLine1(m, readOk) ==
    /\ HandlerIdle
    /\ IF host.isEngineReady /\ ValidAnalyzeRequest(m) /\ BindingFrameInRange(m.frameNum)
       THEN /\ AnalyzeLineCall(m.frameNum, ClampLine(m.line1), readOk)
            /\ host' = [host EXCEPT !.pc = "line2", !.msg = m, !.reply = "none",
                                    !.calls = 1]
       ELSE /\ readOk
            /\ host' = [host EXCEPT !.pc = "serving", !.msg = m, !.reply = "error",
                                    !.calls = 0]
            /\ EngineUnchanged

\* the second engine.analyzeLine call of handleAnalyzeLine and the reply
HostAnalyzeLine2(readOk) ==
    /\ host.pc = "line2"
    /\ AnalyzeLineCall(host.msg.frameNum, ClampLine(host.msg.line2), readOk)
    /\ host' = [host EXCEPT !.pc = "serving", !.reply = "analysisResult",
                            !.calls = 2]

\* the tests of handleGetPixelTemp that throw
ValidPixelRequest(m) ==
    m.numbers /\ \A k \in 1 .. 3 : m.rgb[k] >= 0 /\ m.rgb[k] <= 255

HostGetPixelTemp(m) ==
    /\ HandlerIdle
    /\ IF host.isEngineReady /\ ValidPixelRequest(m)
       THEN /\ GetPixelTemperatureCall(m.rgb)
            /\ host' = [host EXCEPT !.pc = "serving", !.msg = m,
                                    !.reply = "pixelTempResult", !.calls = 1]
       ELSE /\ host' = [host EXCEPT !.pc = "serving", !.msg = m, !.reply = "error",
                                    !.calls = 0]
            /\ EngineUnchanged

\* case 'ping' and default of the switch
HostOtherMessage(m) ==
    /\ HandlerIdle
    /\ host' = [host EXCEPT !.pc = "serving", !.msg = m,
                            !.reply = IF m.type = "ping" THEN "pong" ELSE "error",
                            !.calls = 0]
    /\ EngineUnchanged

HostNext ==
    \/ HostCheckFiles
    \/ HostLoadVideo
    \/ HostLoadMapping
    \/ HostCheckReady
    \/ HostListen
    \/ HostExit
    \/ \E m \in AnalyzeMessages, readOk \in BOOLEAN : HostAnalyzeLine1(m, readOk)
    \/ \E readOk \in BOOLEAN : HostAnalyzeLine2(readOk)
    \/ \E m \in PixelMessages : HostGetPixelTemp(m)
    \/ \E m \in OtherMessages : HostOtherMessage(m)

HostSpec == HostInit /\ [][HostNext]_vars

----------------------------------------------------------------------------
(* Properties *)

\* C1: a lookup of a colour with channels in [0,255] whose packed key
\* (r*2^16 + g*2^8 + b) is in the table returns the temperature stored
\* under that key, whatever else the table holds, and the nearest-neighbour
\* scan looks at no entry.
C1_ExactMatch ==
    (last.op = "getPixelTemperature" /\ \A k \in 1 .. 3 : last.arg[k] \in 0 .. 255)
    => \A i \in 1 .. Len(tempMapping) :
         tempMapping[i].key = last.arg[1] * 65536 + last.arg[2] * 256 + last.arg[3]
         => (last.temp = tempMapping[i].temp /\ last.visited = 0)

\* a lookup hit its key although an earlier entry with another temperature
\* lies within the early-exit distance of the query
C1_Witness ==
    /\ last.op = "getPixelTemperature"
    /\ \E i, j \in 1 .. Len(tempMapping) :
         /\ j < i
         /\ tempMapping[i].key = last.arg[1] * 65536 + last.arg[2] * 256 + last.arg[3]
         /\ Dist2(last.arg[1], last.arg[2], last.arg[3], tempMapping[j].key) < 100
         /\ tempMapping[j].temp # tempMapping[i].temp
         /\ last.temp = tempMapping[i].temp

\* C2: loadTempMapping replaces the previously loaded table: after a
\* successful load the table holds exactly the entries accepted from the
\* file just loaded, so colours of earlier files are gone.
C2_LoadReplacesTable ==
    (last.op = "loadTempMapping" /\ last.ok)
    => { tempMapping[i] : i \in 1 .. Len(tempMapping) }
       = LET fresh == LoadResult(<<>>, CsvNamed(last.arg[1])).map
         IN { fresh[i] : i \in 1 .. Len(fresh) }


FrameOps == {"getFrame", "analyzeLine"}

\* C3: a getFrame whose decode fails returns an empty frame and leaves the
\* cache as it was: the last-served index and the cached frame are unchanged.
C3_FailedDecodeKeepsCache ==
    [][ (last'.op = "getFrame" /\ last'.reads = 1 /\ ~last'.ok)
        => (last'.frame = <<>> /\ lastFrameNumber' = lastFrameNumber
            /\ currentFrame' = currentFrame) ]_vars

\* C4: after a getFrame that delivered the frame of clamped index k, an
\* immediately following getFrame with the same clamped index returns the
\* same frame and asks nothing of the decoder.
C4_CacheReuse ==
    [][ (last.op \in FrameOps /\ last.ok /\ last'.op \in FrameOps
         /\ ClampFrame(last'.arg[1]) = last.idx)
        => (last'.reads = 0 /\ last'.seek = -1 /\ last'.frame = last.frame) ]_vars

\* a getFrame answered from the cache with a non-empty frame
C4_Witness ==
    /\ last.op = "getFrame" /\ last.ok /\ last.reads = 0
    /\ last.idx = lastFrameNumber /\ last.frame = currentFrame

\* C5: with a video open and totalFrames >= 1, getFrame(n) for n < 0 behaves
\* as getFrame(0) and for n >= totalFrames as getFrame(totalFrames - 1),
\* whatever the decoder answers; an index handed to the decoder lies in
\* 0 .. totalFrames - 1.
C5_FrameClamping ==
    (capOpened /\ totalFrames >= 1)
    => /\ \A n \in FrameArgs :
            LET t == IF n < 0 THEN 0
                     ELSE IF n >= totalFrames THEN totalFrames - 1 ELSE n
            IN  /\ ReadChoices(n) = ReadChoices(t)
                /\ \A readOk \in ReadChoices(n) :
                      GetFrameResult(n, readOk) = GetFrameResult(t, readOk)
       /\ (last.op \in FrameOps /\ last.reads = 1)
            => last.seek \in 0 .. totalFrames - 1

\* a getFrame beyond the last frame delivered the last frame
C5_Witness ==
    /\ capOpened /\ totalFrames >= 1
    /\ last.op = "getFrame" /\ last.arg[1] >= totalFrames
    /\ last.ok /\ last.idx = totalFrames - 1 /\ last.seek = totalFrames - 1

C7_NoFrameNoSamples ==
    (last.op = "analyzeLine")
    => /\ (last.frame = <<>>) => (last.temps = <<>> /\ last.reads <= 1)
       /\ (~capOpened) => (last.frame = <<>> /\ last.temps = <<>> /\ last.reads = 0)
       /\ \A readOk \in ReadChoices(last.arg[1]) :
            (~capOpened) => GetFrameResult(last.arg[1], readOk).frame = <<>>

\* an analyzeLine whose single decode failed although a frame was cached
C7_Witness ==
    /\ last.op = "analyzeLine" /\ last.reads = 1 /\ last.frame = <<>>
    /\ last.temps = <<>> /\ lastFrameNumber >= 0

C10_NearestSanity ==
    (/\ last.op = "getPixelTemperature"
     /\ \A i, j \in 1 .. Len(tempMapping) :
          i # j => Dist2(UnpackR(tempMapping[i].key), UnpackG(tempMapping[i].key),
                         UnpackB(tempMapping[i].key), tempMapping[j].key) >= 121)
    => \A i \in 1 .. Len(tempMapping) :
         (/\ Dist2(last.arg[1], last.arg[2], last.arg[3], tempMapping[i].key) < 100
          /\ \A j \in 1 .. Len(tempMapping) :
               j # i => Dist2(last.arg[1], last.arg[2], last.arg[3],
                              tempMapping[j].key) >= 100)
         => last.temp = tempMapping[i].temp

\* (254,1,1) was looked up in a table that lists a far entry before the
\* one near entry
C10_Witness ==
    /\ last.op = "getPixelTemperature" /\ last.arg = <<254, 1, 1>>
    /\ Len(tempMapping) = 2
    /\ tempMapping[1].key = 255 * 256
    /\ tempMapping[2].key = 255 * 65536 /\ tempMapping[2].temp = 1000
    /\ last.temp = 1000 /\ last.visited = 2

\* C11: a lookup without an exact match, in a table with an entry at
\* distance < 10 from the query, stops at the first such entry in
\* iteration order and returns its temperature, also when a later entry is
\* closer.
C11_EarlyExit ==
    (/\ last.op = "getPixelTemperature"
     /\ \A i \in 1 .. Len(tempMapping) :
          tempMapping[i].key # last.arg[1] * 65536 + last.arg[2] * 256 + last.arg[3])
    => \A i \in 1 .. Len(tempMapping) :
         (/\ Dist2(last.arg[1], last.arg[2], last.arg[3], tempMapping[i].key) < 100
          /\ \A j \in 1 .. i - 1 :
               Dist2(last.arg[1], last.arg[2], last.arg[3], tempMapping[j].key) >= 100)
         => (last.temp = tempMapping[i].temp /\ last.visited = i)

\* the lookup returned a near entry although a strictly closer entry with
\* another temperature comes later in the table
C11_Witness ==
    /\ last.op = "getPixelTemperature"
    /\ \A i \in 1 .. Len(tempMapping) :
         tempMapping[i].key # last.arg[1] * 65536 + last.arg[2] * 256 + last.arg[3]
    /\ \E i, j \in 1 .. Len(tempMapping) :
         /\ i < j
         /\ last.visited = i /\ last.temp = tempMapping[i].temp
         /\ Dist2(last.arg[1], last.arg[2], last.arg[3], tempMapping[j].key)
              < Dist2(last.arg[1], last.arg[2], last.arg[3], tempMapping[i].key)
         /\ tempMapping[j].temp # tempMapping[i].temp

\* C12: a lookup in the empty table returns -1; a lookup in a non-empty
\* table whose temperatures are all >= 0 returns one of the stored
\* temperatures, never the negative sentinel.
C12_SentinelOnlyWhenEmpty ==
    (last.op = "getPixelTemperature")
    => /\ (tempMapping = <<>>) => last.temp = -1
       /\ (/\ tempMapping # <<>>
           /\ \A i \in 1 .. Len(tempMapping) : tempMapping[i].temp >= 0)
          => (/\ last.temp >= 0
              /\ \E i \in 1 .. Len(tempMapping) : last.temp = tempMapping[i].temp)

\* a lookup far from every entry of a non-empty table of non-negative
\* temperatures went through the whole table and returned a stored value
C12_Witness ==
    /\ last.op = "getPixelTemperature"
    /\ Len(tempMapping) >= 2
    /\ \A i \in 1 .. Len(tempMapping) :
         /\ tempMapping[i].temp >= 0
         /\ Dist2(last.arg[1], last.arg[2], last.arg[3], tempMapping[i].key) >= 100
    /\ last.visited = Len(tempMapping)
    /\ last.temp >= 0

\* what the properties say of one line of a calibration file: it has at
\* least 6 fields, fields 3-5 read as integers and field 6 as a number
RowParses(line) ==
    /\ Len(SplitCsv(line)) >= 6
    /\ \A k \in 3 .. 5 : ~StoiThrows(SplitCsv(line)[k])
    /\ ~StofThrows(SplitCsv(line)[6])

\* ... and R, G, B are all in [0,255]
RowUsable(line) ==
    /\ RowParses(line)
    /\ \A k \in 3 .. 5 : Stoi(SplitCsv(line)[k]) \in 0 .. 255

RowKey(line) ==
    Stoi(SplitCsv(line)[3]) * 65536 + Stoi(SplitCsv(line)[4]) * 256
      + Stoi(SplitCsv(line)[5])

RowTemp(line) == Stof(SplitCsv(line)[6])

\* C13: a load of an openable file succeeds exactly when some line after
\* the first is usable (>= 6 fields, parses, R,G,B in [0,255]); every usable
\* line has its colour in the table afterwards, whatever unusable lines
\* precede it and whatever the table held before.
C13_LoadSucceedsIffUsableRow ==
    (last.op = "loadTempMapping" /\ CsvNamed(last.arg[1]).openable)
    => LET lines == CsvNamed(last.arg[1]).lines IN
       /\ last.ok <=> \E i \in 2 .. Len(lines) : RowUsable(lines[i])
       /\ \A i \in 2 .. Len(lines) :
            RowUsable(lines[i])
            => \E e \in 1 .. Len(tempMapping) : tempMapping[e].key = RowKey(lines[i])

\* a file with unusable lines before a usable one was loaded with success
\* and the usable line's colour is in the table
C13_Witness ==
    /\ last.op = "loadTempMapping" /\ last.ok
    /\ LET lines == CsvNamed(last.arg[1]).lines IN
       \E i, j \in 2 .. Len(lines) :
         /\ i < j /\ ~RowUsable(lines[i]) /\ RowUsable(lines[j])
         /\ \E e \in 1 .. Len(tempMapping) : tempMapping[e].key = RowKey(lines[j])

\* C14: after a load, a colour that several usable lines of the file give
\* has one entry in the table, with the temperature of the last such line.
C14_LastWriteWins ==
    (last.op = "loadTempMapping" /\ CsvNamed(last.arg[1]).openable)
    => LET lines == CsvNamed(last.arg[1]).lines IN
       \A i \in 2 .. Len(lines) :
         (/\ RowUsable(lines[i])
          /\ \A j \in i + 1 .. Len(lines) :
               RowUsable(lines[j]) => RowKey(lines[j]) # RowKey(lines[i]))
         => /\ Cardinality({ e \in 1 .. Len(tempMapping) :
                               tempMapping[e].key = RowKey(lines[i]) }) = 1
            /\ \A e \in 1 .. Len(tempMapping) :
                 tempMapping[e].key = RowKey(lines[i])
                 => tempMapping[e].temp = RowTemp(lines[i])

\* a file with two usable lines of one colour and different temperatures
\* was loaded; the table has the later temperature
C14_Witness ==
    /\ last.op = "loadTempMapping" /\ last.ok
    /\ LET lines == CsvNamed(last.arg[1]).lines IN
       \E i, j \in 2 .. Len(lines) :
         /\ i < j /\ RowUsable(lines[i]) /\ RowUsable(lines[j])
         /\ RowKey(lines[i]) = RowKey(lines[j])
         /\ RowTemp(lines[i]) # RowTemp(lines[j])
         /\ \E e \in 1 .. Len(tempMapping) :
              /\ tempMapping[e].key = RowKey(lines[j])
              /\ tempMapping[e].temp = RowTemp(lines[j])

\* C15: every key of the table is below 2^24 and is the packing of its
\* own channel values, all in [0,255]; a line that parses but has R, G or B
\* outside [0,255] leaves table and count as they are.
C15_KeysAreValidColours ==
    /\ \A e \in 1 .. Len(tempMapping) :
         /\ tempMapping[e].key \in 0 .. 16777215
         /\ UnpackR(tempMapping[e].key) \in 0 .. 255
         /\ UnpackG(tempMapping[e].key) \in 0 .. 255
         /\ UnpackB(tempMapping[e].key) \in 0 .. 255
         /\ tempMapping[e].key = UnpackR(tempMapping[e].key) * 65536
                                  + UnpackG(tempMapping[e].key) * 256
                                  + UnpackB(tempMapping[e].key)
    /\ \A f \in CsvFiles : \A i \in 1 .. Len(f.lines) :
         (RowParses(f.lines[i]) /\ ~RowUsable(f.lines[i]))
         => LoadRow([ map |-> tempMapping, count |-> 0 ], f.lines[i])
              = [ map |-> tempMapping, count |-> 0 ]

\* a file holding a line with a channel outside [0,255] was loaded into a
\* table that has entries
C15_Witness ==
    /\ last.op = "loadTempMapping" /\ tempMapping # <<>>
    /\ LET lines == CsvNamed(last.arg[1]).lines IN
       \E i \in 2 .. Len(lines) : RowParses(lines[i]) /\ ~RowUsable(lines[i])

\* C16: the first line of a file contributes nothing: a load of a file
\* without a usable line after the first fails and leaves the table as it
\* was, and a usable first line whose colour no later usable line repeats
\* leaves that colour's entry (or its absence) as it was.
C16_FirstLineSkipped ==
    [][ (last'.op = "loadTempMapping" /\ CsvNamed(last'.arg[1]).openable
         /\ CsvNamed(last'.arg[1]).lines # <<>>)
        => LET lines == CsvNamed(last'.arg[1]).lines IN
           /\ (~ \E i \in 2 .. Len(lines) : RowUsable(lines[i]))
              => (~last'.ok /\ tempMapping' = tempMapping)
           /\ (/\ RowUsable(lines[1])
               /\ \A i \in 2 .. Len(lines) :
                    RowUsable(lines[i]) => RowKey(lines[i]) # RowKey(lines[1]))
              => { tempMapping'[e] : e \in { d \in 1 .. Len(tempMapping') :
                                           tempMapping'[d].key = RowKey(lines[1]) } }
                 = { tempMapping[e] : e \in { d \in 1 .. Len(tempMapping) :
                                           tempMapping[d].key = RowKey(lines[1]) } }
      ]_vars

\* a file whose only line is a usable data line was loaded: the load
\* failed and the line's colour is not in the table
C16_Witness ==
    /\ last.op = "loadTempMapping" /\ ~last.ok
    /\ CsvNamed(last.arg[1]).openable
    /\ Len(CsvNamed(last.arg[1]).lines) = 1
    /\ RowUsable(CsvNamed(last.arg[1]).lines[1])
    /\ \A e \in 1 .. Len(tempMapping) :
         tempMapping[e].key # RowKey(CsvNamed(last.arg[1]).lines[1])

\* C17: for a colour with channels in [0,255], unpacking the key
\* packRGB gives returns the colour, and no other colour has the same key.
C17_PackingIsBijection ==
    (last.op = "packRGB")
    => /\ UnpackR(last.key) = last.arg[1]
       /\ UnpackG(last.key) = last.arg[2]
       /\ UnpackB(last.key) = last.arg[3]
       /\ \A c \in PackColors : packRGB(c[1], c[2], c[3]) = last.key => c = last.arg

\* a colour with bits set in every channel, high and low, was packed
C17_Witness ==
    /\ last.op = "packRGB"
    /\ last.arg[1] >= 128 /\ last.arg[2] = 127 /\ last.arg[3] = 255
    /\ last.key >= 128 * 65536

\* what the raster properties say of a point: it lies in
\* [0,frameWidth) x [0,frameHeight)
Inside(x, y) == x >= 0 /\ x < frameWidth /\ y >= 0 /\ y < frameHeight

\* C18: when both endpoints lie inside the frame, the sequence
\* getLinePixels returns starts with p1 and ends with p2.
C18_EndpointInclusion ==
    (/\ last.op = "getLinePixels"
     /\ Inside(last.arg[1], last.arg[2]) /\ Inside(last.arg[3], last.arg[4]))
    => /\ last.pts # <<>>
       /\ last.pts[1] = <<last.arg[1], last.arg[2]>>
       /\ last.pts[Len(last.pts)] = <<last.arg[3], last.arg[4]>>

\* an oblique line between two different points inside the frame was
\* rasterized into its endpoints and points between them
C18_Witness ==
    /\ last.op = "getLinePixels"
    /\ Inside(last.arg[1], last.arg[2]) /\ Inside(last.arg[3], last.arg[4])
    /\ Abs(last.arg[3] - last.arg[1]) = 4 /\ Abs(last.arg[4] - last.arg[2]) = 2
    /\ Len(last.pts) = 5
    /\ last.pts[1] = <<last.arg[1], last.arg[2]>>
    /\ last.pts[5] = <<last.arg[3], last.arg[4]>>

\* C19: a horizontal segment inside the frame is rasterized into the
\* |x2-x1|+1 points of its row with consecutive x from x1 to x2, in that
\* order; a vertical segment likewise, with consecutive y from y1 to y2.
C19_AxisAlignedCoverage ==
    (/\ last.op = "getLinePixels"
     /\ Inside(last.arg[1], last.arg[2]) /\ Inside(last.arg[3], last.arg[4]))
    => /\ (last.arg[2] = last.arg[4])
          => last.pts = [ i \in 1 .. Abs(last.arg[3] - last.arg[1]) + 1 |->
                          << IF last.arg[1] <= last.arg[3]
                             THEN last.arg[1] + (i - 1) ELSE last.arg[1] - (i - 1),
                             last.arg[2] >> ]
       /\ (last.arg[1] = last.arg[3])
          => last.pts = [ i \in 1 .. Abs(last.arg[4] - last.arg[2]) + 1 |->
                          << last.arg[1],
                             IF last.arg[2] <= last.arg[4]
                             THEN last.arg[2] + (i - 1) ELSE last.arg[2] - (i - 1) >> ]

\* (0,0)-(4,0) was rasterized into (0,0),(1,0),(2,0),(3,0),(4,0)
C19_Witness ==
    /\ last.op = "getLinePixels"
    /\ last.arg = <<0, 0, 4, 0>>
    /\ last.pts = << <<0, 0>>, <<1, 0>>, <<2, 0>>, <<3, 0>>, <<4, 0>> >>

\* C20: getLinePixels(p, p) returns <<p>> when p is inside the frame and
\* the empty sequence when p is outside it.
C20_DegenerateLine ==
    (/\ last.op = "getLinePixels"
     /\ last.arg[1] = last.arg[3] /\ last.arg[2] = last.arg[4])
    => last.pts = IF Inside(last.arg[1], last.arg[2])
                  THEN << <<last.arg[1], last.arg[2]>> >> ELSE <<>>

\* a point on the column x = frameWidth was rasterized into nothing
C20_Witness ==
    /\ last.op = "getLinePixels"
    /\ last.arg[1] = last.arg[3] /\ last.arg[2] = last.arg[4]
    /\ last.arg[1] = frameWidth /\ last.arg[2] \in 0 .. frameHeight - 1
    /\ last.pts = <<>>

\* C21: every point getLinePixels returns lies in
\* [0,frameWidth) x [0,frameHeight), and the sequence returned is the
\* sequence of points the loop passes through from p1 to p2 with the points
\* outside the frame removed and the others in their order.
C21_DroppedNotClamped ==
    (last.op = "getLinePixels")
    => /\ \A i \in 1 .. Len(last.pts) : Inside(last.pts[i][1], last.pts[i][2])
       /\ last.pts = SelectSeq(last.walk, LAMBDA p : Inside(p[1], p[2]))

\* a line from a point outside the frame to a point inside it was
\* rasterized into fewer points than the loop passed through
C21_Witness ==
    /\ last.op = "getLinePixels"
    /\ ~Inside(last.arg[1], last.arg[2]) /\ Inside(last.arg[3], last.arg[4])
    /\ last.pts # <<>>
    /\ Len(last.pts) < Len(last.walk)
    /\ last.pts[Len(last.pts)] = <<last.arg[3], last.arg[4]>>

\* C24: the loop of getLinePixels ends for all int endpoints: the call
\* returns, having passed through max(|x2-x1|,|y2-y1|)+1 points, from p1,
\* each next point at most 1 away in x and in y, and having reached p2 at its
\* last iteration only.
C24_LoopTerminates ==
    (last.op \in {"getLinePixels", "overflow"})
    => /\ ~crashed
       /\ Len(last.walk) = Max(Abs(last.arg[3] - last.arg[1]),
                               Abs(last.arg[4] - last.arg[2])) + 1
       /\ last.walk[1] = <<last.arg[1], last.arg[2]>>
       /\ last.walk[Len(last.walk)] = <<last.arg[3], last.arg[4]>>
       /\ \A i \in 1 .. Len(last.walk) - 1 :
            /\ Abs(last.walk[i + 1][1] - last.walk[i][1]) <= 1
            /\ Abs(last.walk[i + 1][2] - last.walk[i][2]) <= 1
            /\ last.walk[i] # <<last.arg[3], last.arg[4]>>

\* C22: when the last call was a loadVideo or a loadTempMapping that
\* returned false, isReady is false and an analyzeLine made next returns no
\* samples.
C22_NotReadyAfterLoadError ==
    [][ (last.op \in {"loadVideo", "loadTempMapping"} /\ ~last.ok)
        => /\ ~isReady
           /\ (last'.op = "analyzeLine" => last'.temps = <<>>) ]_vars

\* C23: a load returns false when the video cannot be opened, when the
\* video opens with zero frames, when the calibration file cannot be opened,
\* and when the calibration file has no usable line.
C23_LoadFailureReported ==
    /\ (last.op = "loadVideo")
       => ((~VideoNamed(last.arg[1]).openable \/ VideoNamed(last.arg[1]).count = 0)
           => ~last.ok)
    /\ (last.op = "loadTempMapping")
       => ((\/ ~CsvNamed(last.arg[1]).openable
            \/ ~ \E i \in 2 .. Len(CsvNamed(last.arg[1]).lines) :
                   RowUsable(CsvNamed(last.arg[1]).lines[i]))
           => ~last.ok)

\* C25: a lookup without an exact match, in a table that has entries
\* but none at distance < 10 from the query, returns the temperature of the
\* first entry in iteration order among those at the least distance.
C25_WholeTableMinimum ==
    (/\ last.op = "getPixelTemperature"
     /\ tempMapping # <<>>
     /\ \A i \in 1 .. Len(tempMapping) :
          /\ tempMapping[i].key # last.arg[1] * 65536 + last.arg[2] * 256 + last.arg[3]
          /\ Dist2(last.arg[1], last.arg[2], last.arg[3], tempMapping[i].key) >= 100)
    => \E i \in 1 .. Len(tempMapping) :
         /\ \A j \in 1 .. Len(tempMapping) :
              Dist2(last.arg[1], last.arg[2], last.arg[3], tempMapping[j].key)
                >= Dist2(last.arg[1], last.arg[2], last.arg[3], tempMapping[i].key)
         /\ \A j \in 1 .. i - 1 :
              Dist2(last.arg[1], last.arg[2], last.arg[3], tempMapping[j].key)
                > Dist2(last.arg[1], last.arg[2], last.arg[3], tempMapping[i].key)
         /\ last.temp = tempMapping[i].temp
         /\ last.visited = Len(tempMapping)

\* a query with two entries at the same least distance and different
\* temperatures got the temperature of the earlier of the two
C25_Witness ==
    /\ last.op = "getPixelTemperature"
    /\ \A i \in 1 .. Len(tempMapping) :
         Dist2(last.arg[1], last.arg[2], last.arg[3], tempMapping[i].key) >= 100
    /\ \E i, j \in 1 .. Len(tempMapping) :
         /\ i < j
         /\ \A h \in 1 .. Len(tempMapping) :
              Dist2(last.arg[1], last.arg[2], last.arg[3], tempMapping[h].key)
                >= Dist2(last.arg[1], last.arg[2], last.arg[3], tempMapping[i].key)
         /\ Dist2(last.arg[1], last.arg[2], last.arg[3], tempMapping[i].key)
              = Dist2(last.arg[1], last.arg[2], last.arg[3], tempMapping[j].key)
         /\ tempMapping[i].temp # tempMapping[j].temp
         /\ last.temp = tempMapping[i].temp

\* C28: a getFrame that returns a non-empty frame for the clamped index
\* k returns the pixels of frame k of the video that is loaded now, also when
\* k is the index last served from a video loaded before.
C28_CacheCoherence ==
    (last.op = "getFrame" /\ last.frame # <<>>)
    => /\ capOpened
       /\ last.idx = ClampFrame(last.arg[1])
       /\ last.idx + 1 <= Len(VideoNamed(capVideo).frames)
       /\ last.frame = VideoNamed(capVideo).frames[last.idx + 1]

\* C29: a loadTempMapping that returns false leaves the table as it was
\* before the call, entries and iteration order, so every lookup answers
\* after it as before it.
C29_FailedLoadKeepsTable ==
    [][ (last'.op = "loadTempMapping" /\ ~last'.ok)
        => /\ tempMapping' = tempMapping
           /\ \A c \in QueryColors :
                Resolve(tempMapping', c[1], c[2], c[3]).temp
                  = Resolve(tempMapping, c[1], c[2], c[3]).temp ]_vars

\* a file that opens but has no usable line was loaded into a table with
\* entries: the load failed and the entries are there
C29_Witness ==
    /\ last.op = "loadTempMapping" /\ ~last.ok
    /\ CsvNamed(last.arg[1]).openable
    /\ Len(CsvNamed(last.arg[1]).lines) > 2
    /\ Len(tempMapping) >= 2

\* C26: engine calls do not interleave: once a handleAnalyzeLine has
\* made its first engine.analyzeLine call, the next thing that happens is its
\* second engine.analyzeLine call, for the same frame index, and of the two
\* calls at most one decodes a frame.
C26_EngineCallsSerialized ==
    [][ (host.pc = "line2")
        => /\ host'.pc = "serving"
           /\ host'.msg = host.msg
           /\ host'.calls = 2
           /\ last.op = "analyzeLine" /\ last'.op = "analyzeLine"
           /\ last.arg[1] = host.msg.frameNum /\ last'.arg[1] = host.msg.frameNum
           /\ ~(last.reads = 1 /\ last.ok /\ last'.reads = 1 /\ last'.ok)
           /\ (last.ok => last'.reads = 0) ]_vars

\* a request was answered whose first call decoded the frame (it is the
\* cached one now) and whose second call read nothing and sampled its line
C26_Witness ==
    /\ host.pc = "serving" /\ host.reply = "analysisResult" /\ host.calls = 2
    /\ last.op = "analyzeLine" /\ last.reads = 0 /\ last.temps # <<>>
    /\ lastFrameNumber = host.msg.frameNum
    /\ host.msg.line1 # host.msg.line2

\* C27: an engine.analyzeLine call made for a request has its frame
\* index in [0, frames) and both endpoints in [0,width-1] x [0,height-1]; a
\* request whose frame index is outside [0, frames) is answered with an error
\* and makes no engine call.
C27_HostValidatesAndClamps ==
    [][ /\ (host'.msg.type = "analyzeLine" /\ host'.calls > 0)
           => /\ last'.op = "analyzeLine"
              /\ last'.arg[1] \in 0 .. totalFrames - 1
              /\ last'.arg[2] \in 0 .. frameWidth - 1
              /\ last'.arg[3] \in 0 .. frameHeight - 1
              /\ last'.arg[4] \in 0 .. frameWidth - 1
              /\ last'.arg[5] \in 0 .. frameHeight - 1
        /\ (/\ host.pc = "serving"
            /\ host'.msg.type = "analyzeLine"
            /\ host'.msg.frameNum \notin 0 .. host.videoInfo.frames - 1)
           => /\ host'.reply = "error" /\ host'.pc = "serving"
              /\ last' = last
              /\ currentFrame' = currentFrame
              /\ lastFrameNumber' = lastFrameNumber ]_vars

\* a request with endpoints outside the frame was answered with samples
\* taken along the clamped line
C27_Witness ==
    /\ host.pc = "serving" /\ host.reply = "analysisResult" /\ host.calls = 2
    /\ host.msg.line2 = <<-1, 0, 5, 5>>
    /\ last.op = "analyzeLine"
    /\ last.arg = <<host.msg.frameNum, 0, 0, frameWidth - 1, frameHeight - 1>>
    /\ last.temps # <<>>

\* C30: the server listens only after loadVideo and loadTempMapping
\* returned true and isReady returned true, and does not listen once
\* initializeEngine has failed; a handler calls the engine only while
\* isEngineReady is true and answers with an error when it is false.
C30_StartupOrdering ==
    /\ host.listening
       => (host.videoLoaded /\ host.mappingLoaded /\ host.isEngineReady /\ isReady)
    /\ host.pc \in {"failed", "exited"} => ~host.listening
    /\ host.calls > 0 => host.isEngineReady
    /\ (host.msg.type \in {"analyzeLine", "getPixelTemp"} /\ ~host.isEngineReady)
       => host.reply = "error"

\* the server listens and has answered a request with engine calls
C30_Witness ==
    /\ host.listening /\ host.videoLoaded /\ host.mappingLoaded
    /\ host.reply = "pixelTempResult" /\ host.calls = 1
    /\ last.op = "getPixelTemperature"

====
